---- MODULE Spec2Model ----
(***************************************************************************)
(* Model of the speech-to-text repository: the retry loop of               *)
(* transcribeAudio (src/services/geminiService.ts) and the result          *)
(* normalisation functions parseTimestamp / parseTranscription             *)
(* (src/App.tsx).                                                          *)
(*                                                                         *)
(* JavaScript strings are TLA+ strings; a character is a string of length  *)
(* one, read with Ch(s, i) (1-based).  JavaScript numbers are records      *)
(* [nan, v] holding an integer v or NaN.                                   *)
(***************************************************************************)
EXTENDS Integers, Sequences, FiniteSets, TLC

VARIABLES
    pc,         \* position of the transcribeAudio invocation
    attempt,    \* the loop variable `attempt`
    lastError,  \* the loop's `lastError`
    result,     \* value the promise resolved with
    thrown,     \* error the promise rejected with
    inFlight,   \* number of generateContent requests awaiting an answer
    log,        \* history: the events of this invocation, in order
    tsIn,       \* parseTimestamp: the argument
    tsOut,      \* parseTimestamp: the returned value
    ptIn,       \* parseTranscription: the argument rawText
    ptOut,      \* parseTranscription: the returned cue array
    ftIn,       \* formatTime: the arguments
    ftOut,      \* formatTime: the returned string
    items,              \* App state `items`: the file queue
    activeId,           \* App state `activeId` (0 is null)
    isProcessingQueue,  \* App state `isProcessingQueue`
    idleItems,          \* handleTranscribeAll: ids of its local `idleItems`
    queuePos,           \* handleTranscribeAll: index of the item its loop awaits
    singles,            \* per item id, the handleTranscribeSingle runs awaiting
    nextId,             \* the next id crypto.randomUUID() hands out
    step,               \* history: the handler that ran last and its inputs
    parsed              \* parseTranscription(text) of each payload, computed once

vars == <<pc, attempt, lastError, result, thrown, inFlight, log,
          tsIn, tsOut, ptIn, ptOut, ftIn, ftOut,
          items, activeId, isProcessingQueue, idleItems, queuePos, singles,
          nextId, step, parsed>>

callVars == <<pc, attempt, lastError, result, thrown, inFlight, log>>
tsVars == <<tsIn, tsOut>>
ptVars == <<ptIn, ptOut>>
ftVars == <<ftIn, ftOut>>
uiVars == <<items, activeId, isProcessingQueue, idleItems, queuePos, singles,
            nextId, step, parsed>>

(***************************************************************************)
(* Strings and characters                                                  *)
(***************************************************************************)
Ch(s, i) == SubSeq(s, i, i)

Digits == {"0", "1", "2", "3", "4", "5", "6", "7", "8", "9"}

DigitVal(c) ==
    CASE c = "0" -> 0 [] c = "1" -> 1 [] c = "2" -> 2 [] c = "3" -> 3
      [] c = "4" -> 4 [] c = "5" -> 5 [] c = "6" -> 6 [] c = "7" -> 7
      [] c = "8" -> 8 [] c = "9" -> 9

\* JavaScript \s restricted to the whitespace the payloads use
Space == {" ", "\n", "\t"}

UpperChars == "ABCDEFGHIJKLMNOPQRSTUVWXYZ"
LowerChars == "abcdefghijklmnopqrstuvwxyz"

LowerCh(c) ==
    IF \E i \in 1..26 : Ch(UpperChars, i) = c
    THEN Ch(LowerChars, CHOOSE i \in 1..26 : Ch(UpperChars, i) = c)
    ELSE c

\* The recursions over a string halve it, to keep the evaluation shallow
RECURSIVE toLowerCase(_)
toLowerCase(s) ==
    IF Len(s) <= 1 THEN LowerCh(s)
    ELSE toLowerCase(SubSeq(s, 1, Len(s) \div 2))
             \o toLowerCase(SubSeq(s, Len(s) \div 2 + 1, Len(s)))

includes(s, sub) ==
    \E i \in 1..(Len(s) - Len(sub) + 1) : SubSeq(s, i, i + Len(sub) - 1) = sub

endsWith(s, suf) ==
    /\ Len(s) >= Len(suf)
    /\ SubSeq(s, Len(s) - Len(suf) + 1, Len(s)) = suf

\* String.prototype.lastIndexOf for a one-character needle, 0-based, -1 if absent
lastIndexOf(s, c) ==
    IF \E i \in 1..Len(s) : Ch(s, i) = c
    THEN (CHOOSE i \in 1..Len(s) :
            /\ Ch(s, i) = c
            /\ \A j \in (i + 1)..Len(s) : Ch(s, j) # c) - 1
    ELSE -1

\* String.prototype.replace(needle, '') with a string needle: first occurrence only
replaceFirst(s, needle) ==
    IF includes(s, needle)
    THEN LET i == CHOOSE k \in 1..(Len(s) - Len(needle) + 1) :
                    /\ SubSeq(s, k, k + Len(needle) - 1) = needle
                    /\ \A j \in 1..(k - 1) : SubSeq(s, j, j + Len(needle) - 1) # needle
         IN SubSeq(s, 1, i - 1) \o SubSeq(s, i + Len(needle), Len(s))
    ELSE s

RECURSIVE removeChars(_, _)
removeChars(s, set) ==
    IF Len(s) <= 1 THEN (IF s \in set THEN "" ELSE s)
    ELSE removeChars(SubSeq(s, 1, Len(s) \div 2), set)
             \o removeChars(SubSeq(s, Len(s) \div 2 + 1, Len(s)), set)

Min(set) == CHOOSE x \in set : \A y \in set : x <= y
Max(set) == CHOOSE x \in set : \A y \in set : x >= y

\* Number of consecutive characters of s from position p that are in `set`
\* (neg = FALSE) or outside it (neg = TRUE)
RunLen(s, p, set, neg) ==
    LET stop == {k \in p..Len(s) : (Ch(s, k) \in set) = neg}
    IN IF stop = {} THEN Len(s) - p + 1 ELSE Min(stop) - p

trimStart(s) == SubSeq(s, RunLen(s, 1, Space, FALSE) + 1, Len(s))

trimEnd(s) ==
    LET keep == {k \in 1..Len(s) : Ch(s, k) \notin Space}
    IN IF keep = {} THEN "" ELSE SubSeq(s, 1, Max(keep))

trim(s) == trimEnd(trimStart(s))

RECURSIVE padEnd(_, _, _)
padEnd(s, n, c) == IF Len(s) >= n THEN s ELSE padEnd(s \o c, n, c)

RECURSIVE padStart(_, _, _)
padStart(s, n, c) == IF Len(s) >= n THEN s ELSE padStart(c \o s, n, c)

(***************************************************************************)
(* JavaScript numbers: an integer or NaN                                   *)
(***************************************************************************)
NaN == [nan |-> TRUE, v |-> 0]
Num(i) == [nan |-> FALSE, v |-> i]
isNaN(x) == x.nan

Add(x, y) == IF x.nan \/ y.nan THEN NaN ELSE Num(x.v + y.v)
Mul(x, y) == IF x.nan \/ y.nan THEN NaN ELSE Num(x.v * y.v)

RECURSIVE Pow(_, _)
Pow(b, e) == IF e = 0 THEN 1 ELSE b * Pow(b, e - 1)

\* Length of the longest run of digits of s from position i
DigitRun(s, i) == RunLen(s, i, Digits, FALSE)

RECURSIVE DigitsVal(_)
DigitsVal(s) ==
    IF s = "" THEN 0
    ELSE DigitsVal(SubSeq(s, 1, Len(s) - 1)) * 10 + DigitVal(Ch(s, Len(s)))

\* parseInt(s, 10): leading whitespace, an optional sign, then the longest
\* run of digits; NaN when there is no digit
parseInt(str) ==
    LET s == trimStart(str)
        signed == s # "" /\ Ch(s, 1) \in {"-", "+"}
        from == IF signed THEN 2 ELSE 1
        n == DigitRun(s, from)
        mag == DigitsVal(SubSeq(s, from, from + n - 1))
    IN IF n = 0 THEN NaN
       ELSE IF signed /\ Ch(s, 1) = "-" THEN Num(0 - mag) ELSE Num(mag)

\* A decimal fraction n / d (d a power of ten), or NaN
DecNaN == [nan |-> TRUE, n |-> 0, d |-> 1]

\* parseFloat(s) for the strings the program passes to it: digits and dots
\* only (the callers' regular expressions guarantee it).  Reads digits, an
\* optional '.', and digits; NaN when no digit was read.
parseFloat(s) ==
    LET ni == DigitRun(s, 1)
        dot == ni + 1 <= Len(s) /\ Ch(s, ni + 1) = "."
        nf == IF dot THEN DigitRun(s, ni + 2) ELSE 0
        ip == DigitsVal(SubSeq(s, 1, ni))
        fp == DigitsVal(SubSeq(s, ni + 2, ni + 1 + nf))
    IN IF ni + nf = 0 THEN DecNaN
       ELSE [nan |-> FALSE, n |-> ip * Pow(10, nf) + fp, d |-> Pow(10, nf)]

\* Math.ceil of a decimal fraction
ceil(x) == IF x.nan THEN NaN ELSE Num(0 - ((0 - x.n) \div x.d))

\* Math.round(x * 1000) of a decimal fraction: floor(x * 1000 + 1/2)
roundMillis(x) ==
    IF x.nan THEN NaN ELSE Num((2 * 1000 * x.n + x.d) \div (2 * x.d))

(***************************************************************************)
(* Regular expressions: a matcher with JavaScript's backtracking priority  *)
(* (greedy before skipping, lazy after, left alternative first).  A        *)
(* regular expression is a sequence of nodes.  Matching a node from a      *)
(* state (position, captures) gives the sequence of states the             *)
(* backtracking search would try, in its order; the first state that       *)
(* survives the whole expression is the match JavaScript finds.            *)
(***************************************************************************)
Node(t, set, neg, body, alt, i) ==
    [t |-> t, set |-> set, neg |-> neg, body |-> body, alt |-> alt, i |-> i]

Cls(set) == Node("cls", set, FALSE, <<>>, <<>>, 0)    \* [...] or a literal character
Dot == Node("cls", {"\n"}, TRUE, <<>>, <<>>, 0)       \* .
AnyChar == Node("cls", {}, TRUE, <<>>, <<>>, 0)       \* [\s\S]
Opt(body) == Node("opt", {}, FALSE, body, <<>>, 0)    \* (?:body)?
Star(c) == Node("star", c.set, c.neg, <<>>, <<>>, 0)  \* c* for a character class c
Lazy(c) == Node("lazy", c.set, c.neg, <<>>, <<>>, 0)  \* c*? for a character class c
Alt(a, b) == Node("alt", {}, FALSE, a, b, 0)          \* (?:a|b)
Open(i) == Node("open", {}, FALSE, <<>>, <<>>, i)     \* ( of capture group i
Close(i) == Node("close", {}, FALSE, <<>>, <<>>, i)   \* ) of capture group i
Bos == Node("bos", {}, FALSE, <<>>, <<>>, 0)          \* ^ without the m flag
Eos == Node("eos", {}, FALSE, <<>>, <<>>, 0)          \* $ without the m flag
Eol == Node("eol", {}, FALSE, <<>>, <<>>, 0)          \* $ with the m flag
Look(body) == Node("look", {}, FALSE, body, <<>>, 0)  \* (?=body)

Plus(c) == <<c, Star(c)>>                             \* c+ for a character class c

Lit(s) == [k \in 1..Len(s) |-> Cls({Ch(s, k)})]

RECURSIVE Flatten(_)
Flatten(seqs) ==
    IF Len(seqs) = 0 THEN <<>>
    ELSE IF Len(seqs) = 1 THEN seqs[1]
    ELSE Flatten(SubSeq(seqs, 1, Len(seqs) \div 2))
             \o Flatten(SubSeq(seqs, Len(seqs) \div 2 + 1, Len(seqs)))

RECURSIVE Run(_, _, _)
RECURSIVE Step(_, _, _)

\* The states after node n, tried from state st, in priority order
Step(s, n, st) ==
    CASE n.t = "cls" ->
           IF st.p <= Len(s) /\ ((Ch(s, st.p) \in n.set) # n.neg)
           THEN <<[st EXCEPT !.p = st.p + 1]>> ELSE <<>>
      [] n.t = "opt" -> Run(s, n.body, <<st>>) \o <<st>>
      [] n.t = "alt" -> Run(s, n.body, <<st>>) \o Run(s, n.alt, <<st>>)
      [] n.t = "star" ->
           LET max == RunLen(s, st.p, n.set, n.neg)
           IN [j \in 1..(max + 1) |-> [st EXCEPT !.p = st.p + max + 1 - j]]
      [] n.t = "lazy" ->
           LET max == RunLen(s, st.p, n.set, n.neg)
           IN [j \in 1..(max + 1) |-> [st EXCEPT !.p = st.p + j - 1]]
      [] n.t = "open" -> <<[st EXCEPT !.caps[n.i] = <<st.p, st.p>>]>>
      [] n.t = "close" -> <<[st EXCEPT !.caps[n.i] = <<st.caps[n.i][1], st.p>>]>>
      [] n.t = "bos" -> IF st.p = 1 THEN <<st>> ELSE <<>>
      [] n.t = "eos" -> IF st.p = Len(s) + 1 THEN <<st>> ELSE <<>>
      [] n.t = "eol" -> IF st.p = Len(s) + 1 \/ Ch(s, st.p) = "\n" THEN <<st>> ELSE <<>>
      [] n.t = "look" -> IF Run(s, n.body, <<st>>) # <<>> THEN <<st>> ELSE <<>>

\* The states after the nodes ns, tried from the states sts in their order
Run(s, ns, sts) ==
    IF Len(ns) = 0 \/ sts = <<>> THEN sts
    ELSE IF Len(ns) = 1 THEN Flatten([k \in DOMAIN sts |-> Step(s, ns[1], sts[k])])
    ELSE Run(s, SubSeq(ns, Len(ns) \div 2 + 1, Len(ns)),
             Run(s, SubSeq(ns, 1, Len(ns) \div 2), sts))

NoMatch == [ok |-> FALSE, start |-> 0, end |-> 0, caps |-> <<>>]
NoCaps == [i \in 1..4 |-> <<0, 0>>]

\* RegExp.prototype.exec from position `from` (1-based): the leftmost match,
\* and at that start the first in priority order.  Group 4 is the whole match.
exec(re, s, from) ==
    LET found == IF from > Len(s) + 1 THEN <<>>
                 ELSE Run(s, <<Lazy(AnyChar), Open(4)>> \o re \o <<Close(4)>>,
                          <<[p |-> from, caps |-> NoCaps]>>)
    IN IF found = <<>> THEN NoMatch
       ELSE [ok |-> TRUE, start |-> found[1].caps[4][1], end |-> found[1].p,
             caps |-> found[1].caps]

test(re, s) == exec(re, s, 1).ok

\* Text of capture group i of match m
Group(s, m, i) == SubSeq(s, m.caps[i][1], m.caps[i][2] - 1)

\* String.prototype.matchAll with a g-flag expression: successive matches
RECURSIVE matchAll(_, _, _)
matchAll(re, s, from) ==
    LET m == exec(re, s, from)
    IN IF ~m.ok THEN <<>>
       ELSE <<m>> \o matchAll(re, s, IF m.end = m.start THEN m.end + 1 ELSE m.end)

\* String.prototype.replace(re, '') without the g flag
replaceRe(re, s) ==
    LET m == exec(re, s, 1)
    IN IF m.ok THEN SubSeq(s, 1, m.start - 1) \o SubSeq(s, m.end, Len(s)) ELSE s

\* String.prototype.replace(re, '') with the g flag
RECURSIVE replaceAllRe(_, _, _)
replaceAllRe(re, s, from) ==
    LET m == exec(re, s, from)
    IN IF ~m.ok THEN SubSeq(s, from, Len(s))
       ELSE IF m.end = m.start
            THEN SubSeq(s, from, Min({m.start, Len(s)})) \o replaceAllRe(re, s, m.end + 1)
            ELSE SubSeq(s, from, m.start - 1) \o replaceAllRe(re, s, m.end)

(***************************************************************************)
(* JavaScript values as JSON.parse produces them, and `undefined`.  A      *)
(* number is the decimal fraction n / d.                                   *)
(***************************************************************************)
JV(t, b, n, d, s, elems, keys) ==
    [t |-> t, b |-> b, n |-> n, d |-> d, s |-> s, items |-> elems, keys |-> keys]

JUndef == JV("undef", FALSE, 0, 1, "", <<>>, <<>>)
JNull == JV("null", FALSE, 0, 1, "", <<>>, <<>>)
JBool(b) == JV("bool", b, 0, 1, "", <<>>, <<>>)
JNum(n, d) == JV("num", FALSE, n, d, "", <<>>, <<>>)
JStr(s) == JV("str", FALSE, 0, 1, s, <<>>, <<>>)
JArr(elems) == JV("arr", FALSE, 0, 1, "", elems, <<>>)
JObj(keys, vals) == JV("obj", FALSE, 0, 1, "", vals, keys)

\* !x
Falsy(x) ==
    \/ x.t \in {"undef", "null"}
    \/ x.t = "bool" /\ ~x.b
    \/ x.t = "num" /\ x.n = 0
    \/ x.t = "str" /\ x.s = ""

\* x.key: the property of an object (the last of duplicate keys), undefined
\* on any other value that has no such property
Prop(x, key) ==
    IF x.t = "obj" /\ \E k \in DOMAIN x.keys : x.keys[k] = key
    THEN x.items[CHOOSE k \in DOMAIN x.keys :
                    /\ x.keys[k] = key
                    /\ \A l \in DOMAIN x.keys : l > k => x.keys[l] # key]
    ELSE JUndef

(***************************************************************************)
(* JSON.parse: a recursive-descent parser of JSON text.  The payloads of   *)
(* the model use no exponent in numbers and no backslash escape in         *)
(* strings; the parser rejects both.                                       *)
(***************************************************************************)
JFail == [ok |-> FALSE, v |-> JUndef, p |-> 0]
JOk(v, p) == [ok |-> TRUE, v |-> v, p |-> p]

startsWithAt(s, p, lit) ==
    p + Len(lit) - 1 <= Len(s) /\ SubSeq(s, p, p + Len(lit) - 1) = lit

skipWs(s, p) == p + RunLen(s, p, Space, FALSE)

\* A string token whose opening quote is before position p: up to the
\* closing quote; a raw newline or tab inside is a syntax error
jsonString(s, p) ==
    LET n == RunLen(s, p, {"\"", "\n", "\t", "\\"}, TRUE)
    IN IF p + n > Len(s) \/ Ch(s, p + n) # "\"" THEN JFail
       ELSE JOk(JStr(SubSeq(s, p, p + n - 1)), p + n + 1)

jsonNumber(s, p) ==
    LET neg == Ch(s, p) = "-"
        q == IF neg THEN p + 1 ELSE p
        ni == DigitRun(s, q)
        dot == q + ni <= Len(s) /\ Ch(s, q + ni) = "."
        nf == IF dot THEN DigitRun(s, q + ni + 1) ELSE 0
        end == IF dot THEN q + ni + 1 + nf ELSE q + ni
        mag == DigitsVal(SubSeq(s, q, q + ni - 1)) * Pow(10, nf)
                   + DigitsVal(SubSeq(s, q + ni + 1, q + ni + nf))
    IN IF ni = 0 \/ (ni > 1 /\ Ch(s, q) = "0") \/ (dot /\ nf = 0) THEN JFail
       ELSE IF end <= Len(s) /\ Ch(s, end) \in {"e", "E"} THEN JFail
       ELSE JOk(JNum(IF neg THEN 0 - mag ELSE mag, Pow(10, nf)), end)

RECURSIVE jsonValue(_, _)
RECURSIVE jsonElements(_, _, _)
RECURSIVE jsonMembers(_, _, _, _)

jsonValue(s, p0) ==
    LET p == skipWs(s, p0)
    IN IF p > Len(s) THEN JFail
       ELSE IF Ch(s, p) = "["
            THEN LET q == skipWs(s, p + 1)
                 IN IF q <= Len(s) /\ Ch(s, q) = "]" THEN JOk(JArr(<<>>), q + 1)
                    ELSE jsonElements(s, p + 1, <<>>)
       ELSE IF Ch(s, p) = "{"
            THEN LET q == skipWs(s, p + 1)
                 IN IF q <= Len(s) /\ Ch(s, q) = "}" THEN JOk(JObj(<<>>, <<>>), q + 1)
                    ELSE jsonMembers(s, p + 1, <<>>, <<>>)
       ELSE IF Ch(s, p) = "\"" THEN jsonString(s, p + 1)
       ELSE IF Ch(s, p) = "-" \/ Ch(s, p) \in Digits THEN jsonNumber(s, p)
       ELSE IF startsWithAt(s, p, "true") THEN JOk(JBool(TRUE), p + 4)
       ELSE IF startsWithAt(s, p, "false") THEN JOk(JBool(FALSE), p + 5)
       ELSE IF startsWithAt(s, p, "null") THEN JOk(JNull, p + 4)
       ELSE JFail

jsonElements(s, p, acc) ==
    LET r == jsonValue(s, p)
        q == skipWs(s, r.p)
    IN IF ~r.ok \/ q > Len(s) THEN JFail
       ELSE IF Ch(s, q) = "," THEN jsonElements(s, q + 1, Append(acc, r.v))
       ELSE IF Ch(s, q) = "]" THEN JOk(JArr(Append(acc, r.v)), q + 1)
       ELSE JFail

jsonMembers(s, p, keys, vals) ==
    LET k0 == skipWs(s, p)
        key == IF k0 <= Len(s) /\ Ch(s, k0) = "\"" THEN jsonString(s, k0 + 1) ELSE JFail
        colon == skipWs(s, key.p)
        val == IF key.ok /\ colon <= Len(s) /\ Ch(s, colon) = ":"
               THEN jsonValue(s, colon + 1) ELSE JFail
        q == skipWs(s, val.p)
    IN IF ~val.ok \/ q > Len(s) THEN JFail
       ELSE IF Ch(s, q) = ","
            THEN jsonMembers(s, q + 1, Append(keys, key.v.s), Append(vals, val.v))
       ELSE IF Ch(s, q) = "}"
            THEN JOk(JObj(Append(keys, key.v.s), Append(vals, val.v)), q + 1)
       ELSE JFail

\* JSON.parse(text): ok is FALSE when it throws a SyntaxError
JSONparse(text) ==
    LET r == jsonValue(text, 1)
    IN IF r.ok /\ skipWs(text, r.p) = Len(text) + 1 THEN r ELSE JFail

(***************************************************************************)
(* parseTimestamp (src/App.tsx)                                            *)
(***************************************************************************)
\* /^\d+(\.\d+)?s?$/
secondsRegex ==
    <<Bos>> \o Plus(Cls(Digits)) \o <<Opt(Lit(".") \o Plus(Cls(Digits)))>>
        \o <<Opt(Lit("s")), Eos>>

\* String.prototype.split(':')
RECURSIVE split(_, _)
split(s, c) ==
    IF \E i \in 1..Len(s) : Ch(s, i) = c
    THEN LET i == CHOOSE k \in 1..Len(s) :
                     Ch(s, k) = c /\ \A j \in 1..(k - 1) : Ch(s, j) # c
         IN <<SubSeq(s, 1, i - 1)>> \o split(SubSeq(s, i + 1, Len(s)), c)
    ELSE <<s>>

\* Number.prototype.toString of an integer or NaN
RECURSIVE natToString(_)
natToString(n) ==
    IF n < 10 THEN Ch("0123456789", n + 1)
    ELSE natToString(n \div 10) \o Ch("0123456789", (n % 10) + 1)

toString(x) ==
    IF x.nan THEN "NaN"
    ELSE IF x.v < 0 THEN "-" \o natToString(0 - x.v) ELSE natToString(x.v)

\* The loop over separators ['.', ',']: the last '.', else the last ','
sepIndex(time) ==
    IF lastIndexOf(time, ".") # -1 THEN lastIndexOf(time, ".")
    ELSE lastIndexOf(time, ",")

\* Mutant: two segments are read as hours:minutes
clockMillisTwoAsHours(time) ==
    LET sep == sepIndex(time)
        timePart == IF sep # -1 THEN SubSeq(time, 1, sep) ELSE time
        msPart0 == IF sep # -1 THEN SubSeq(time, sep + 2, Len(time)) ELSE "0"
        parts == split(timePart, ":")
        timeSegments == [k \in DOMAIN parts |-> parseInt(parts[k])]
        n == Len(timeSegments)
        hours == IF n \in {3, 4} THEN timeSegments[1]
                 ELSE IF n = 2 THEN timeSegments[1] ELSE Num(0)
        minutes == IF n \in {3, 4} THEN timeSegments[2]
                   ELSE IF n = 2 THEN timeSegments[2] ELSE Num(0)
        seconds == IF n \in {3, 4} THEN timeSegments[3]
                   ELSE IF n = 2 THEN Num(0) ELSE timeSegments[1]
        msPart == IF n = 4 THEN toString(timeSegments[4]) ELSE msPart0
        milliseconds == parseInt(SubSeq(padEnd(msPart, 3, "0"), 1, 3))
    IN IF n \notin {1, 2, 3, 4} THEN NaN
       ELSE Add(Mul(Add(Add(Mul(hours, Num(3600)), Mul(minutes, Num(60))), seconds),
                    Num(1000)),
                milliseconds)

\* Lines 132-166: the colon-delimited clock string
clockMillis(time) ==
    LET sep == sepIndex(time)
        timePart == IF sep # -1 THEN SubSeq(time, 1, sep) ELSE time
        msPart0 == IF sep # -1 THEN SubSeq(time, sep + 2, Len(time)) ELSE "0"
        parts == split(timePart, ":")
        timeSegments == [k \in DOMAIN parts |-> parseInt(parts[k])]
        n == Len(timeSegments)
        hours == IF n \in {3, 4} THEN timeSegments[1] ELSE Num(0)
        minutes == IF n \in {3, 4} THEN timeSegments[2]
                   ELSE IF n = 2 THEN timeSegments[1] ELSE Num(0)
        seconds == IF n \in {3, 4} THEN timeSegments[3]
                   ELSE IF n = 2 THEN timeSegments[2] ELSE timeSegments[1]
        msPart == IF n = 4 THEN toString(timeSegments[4]) ELSE msPart0
        milliseconds == parseInt(SubSeq(padEnd(msPart, 3, "0"), 1, 3))
    IN IF n \notin {1, 2, 3, 4} THEN NaN
       ELSE Add(Mul(Add(Add(Mul(hours, Num(3600)), Mul(minutes, Num(60))), seconds),
                    Num(1000)),
                milliseconds)

\* parseTimestamp of a string
parseTimestampString(timestamp) ==
    IF timestamp = "" THEN NaN
    ELSE LET time == trim(removeChars(timestamp, {"[", "]", "\"", "'"}))
         IN IF time = "" THEN NaN
            ELSE IF endsWith(time, "ms") THEN parseInt(replaceFirst(time, "ms"))
            ELSE IF test(secondsRegex, time)
                 THEN roundMillis(parseFloat(replaceFirst(time, "s")))
            ELSE clockMillis(time)

\* A value on which parseTimestamp raises a TypeError (timestamp.replace is
\* not a function): truthy and neither a number nor a string
parseTimestampThrows(timestamp) ==
    timestamp.t \notin {"num", "str"} /\ ~Falsy(timestamp)

\* parseTimestamp of a number, a string or a falsy value
parseTimestamp(timestamp) ==
    IF timestamp.t = "num" THEN roundMillis([nan |-> FALSE, n |-> timestamp.n, d |-> timestamp.d])
    ELSE IF Falsy(timestamp) THEN NaN
    ELSE parseTimestampString(timestamp.s)

(***************************************************************************)
(* parseTranscription (src/App.tsx)                                        *)
(***************************************************************************)
Letters == {Ch(UpperChars, i) : i \in 1..26} \cup {Ch(LowerChars, i) : i \in 1..26}
Quotes == {"\"", "'"}

D12 == <<Cls(Digits), Opt(<<Cls(Digits)>>)>>                           \* \d{1,2}
D13 == <<Cls(Digits), Opt(<<Cls(Digits), Opt(<<Cls(Digits)>>)>>)>>     \* \d{1,3}

\* (?:\d{1,2}:)?(?:\d{1,2}:)?\d{1,2}(?:[:.,]\d{1,3})?|\d+ms
stampRegex ==
    <<Alt(<<Opt(D12 \o Lit(":")), Opt(D12 \o Lit(":"))>> \o D12
              \o <<Opt(<<Cls({":", ".", ","})>> \o D13)>>,
          Plus(Cls(Digits)) \o Lit("ms"))>>

\* The regular expression of line 188 (flags g and m):
\* (stamp)\s*-{1,2}>\s*(stamp)\s*(?:["']?)(.*?)(?:["']?)\s*$
cueRegex ==
    <<Open(1)>> \o stampRegex \o <<Close(1), Star(Cls(Space))>>
        \o <<Cls({"-"}), Opt(<<Cls({"-"})>>), Cls({">"}), Star(Cls(Space))>>
        \o <<Open(2)>> \o stampRegex \o <<Close(2), Star(Cls(Space))>>
        \o <<Opt(<<Cls(Quotes)>>), Open(3), Lazy(Dot), Close(3), Opt(<<Cls(Quotes)>>)>>
        \o <<Star(Cls(Space)), Eol>>

\* /^["']+|["']+$/g
wrapQuotesRegex == <<Alt(<<Bos>> \o Plus(Cls(Quotes)), Plus(Cls(Quotes)) \o <<Eos>>)>>

\* /^\d+\s+(?=[a-zA-Z])/ and /^\d+\s+/
listMarkerTest ==
    <<Bos>> \o Plus(Cls(Digits)) \o Plus(Cls(Space)) \o <<Look(<<Cls(Letters)>>)>>
listMarkerRegex == <<Bos>> \o Plus(Cls(Digits)) \o Plus(Cls(Space))

Cue(word, start, end) == [word |-> word, start |-> start, end |-> end]

\* Array.prototype.filter(cue => cue !== null) over [keep, cue] pairs
RECURSIVE filterCues(_)
filterCues(seq) ==
    IF seq = <<>> THEN <<>>
    ELSE (IF Head(seq).keep THEN <<Head(seq).cue>> ELSE <<>>) \o filterCues(Tail(seq))

\* The callback of json.map, lines 176-182
structuredCue(item) ==
    LET start == parseTimestamp(Prop(item, "start"))
        end == parseTimestamp(Prop(item, "end"))
        word == IF Falsy(Prop(item, "text")) THEN Prop(item, "word") ELSE Prop(item, "text")
    IN [keep |-> ~(isNaN(start) \/ isNaN(end) \/ Falsy(word)),
        cue |-> Cue(word, start.v, end.v)]

\* The callback raises a TypeError: item is null (item.start), or a
\* timestamp is a truthy value that is neither number nor string
structuredThrows(item) ==
    \/ item.t = "null"
    \/ parseTimestampThrows(Prop(item, "start"))
    \/ parseTimestampThrows(Prop(item, "end"))

\* The callback of matches.map, lines 191-198
patternCue(rawText, match) ==
    LET start == parseTimestamp(JStr(trim(Group(rawText, match, 1))))
        end == parseTimestamp(JStr(trim(Group(rawText, match, 2))))
        word0 == replaceAllRe(wrapQuotesRegex, Group(rawText, match, 3), 1)
        word == IF test(listMarkerTest, word0) THEN replaceRe(listMarkerRegex, word0) ELSE word0
    IN [keep |-> ~(isNaN(start) \/ isNaN(end) \/ word = ""),
        cue |-> Cue(JStr(word), start.v, end.v)]

\* Lines 188-198: the pattern phase
patternPhase(rawText) ==
    LET matches == matchAll(cueRegex, rawText, 1)
    IN filterCues([k \in DOMAIN matches |-> patternCue(rawText, matches[k])])

\* Lines 176-182: the structured phase over a decoded array
structuredPhase(elems) ==
    filterCues([k \in DOMAIN elems |-> structuredCue(elems[k])])

\* Mutant: the catch block returns the empty sequence instead of falling
\* back to the pattern phase
parseTranscriptionNoFallback(rawText) ==
    IF rawText = "" THEN <<>>
    ELSE LET json == JSONparse(rawText)
         IN IF json.ok /\ json.v.t = "arr"
            THEN IF \A k \in DOMAIN json.v.items : ~structuredThrows(json.v.items[k])
                 THEN structuredPhase(json.v.items)
                 ELSE <<>>
            ELSE IF json.ok THEN patternPhase(rawText) ELSE <<>>

parseTranscription(rawText) ==
    IF rawText = "" THEN <<>>
    ELSE LET json == JSONparse(rawText)
         IN IF /\ json.ok
               /\ json.v.t = "arr"
               /\ \A k \in DOMAIN json.v.items : ~structuredThrows(json.v.items[k])
            THEN structuredPhase(json.v.items)
            ELSE patternPhase(rawText)

(***************************************************************************)
(* formatTime (src/App.tsx)                                                *)
(***************************************************************************)
TimestampFormat == [HMS |-> "hh:mm:ss.000", MS |-> "000000ms"]

\* Math.round of the fraction x.n / x.d: the nearest integer, ties upwards
round(x) == ((2 * x.n) + x.d) \div (2 * x.d)

\* The % operator on integers: the sign of the result is that of a
rem(a, b) == IF a >= 0 THEN a % b ELSE 0 - ((0 - a) % b)

\* Mutant: the milliseconds are not padded to three digits
formatTimeUnpadded(totalMilliseconds, format, separator) ==
    LET roundedMs == round(totalMilliseconds)
        totalSeconds == roundedMs \div 1000
    IN IF format = TimestampFormat.MS
       THEN padStart(toString(Num(roundedMs)), 6, "0") \o "ms"
       ELSE padStart(toString(Num(totalSeconds \div 3600)), 2, "0") \o ":"
                \o padStart(toString(Num(rem(totalSeconds, 3600) \div 60)), 2, "0") \o ":"
                \o padStart(toString(Num(rem(totalSeconds, 60))), 2, "0") \o separator
                \o toString(Num(rem(roundedMs, 1000)))

\* Lines 201-211
formatTime(totalMilliseconds, format, separator) ==
    LET roundedMs == round(totalMilliseconds)
        totalSeconds == roundedMs \div 1000
        hours == padStart(toString(Num(totalSeconds \div 3600)), 2, "0")
        minutes == padStart(toString(Num(rem(totalSeconds, 3600) \div 60)), 2, "0")
        seconds == padStart(toString(Num(rem(totalSeconds, 60))), 2, "0")
        milliseconds == padStart(toString(Num(rem(roundedMs, 1000))), 3, "0")
    IN IF format = TimestampFormat.MS
       THEN padStart(toString(Num(roundedMs)), 6, "0") \o "ms"
       ELSE hours \o ":" \o minutes \o ":" \o seconds \o separator \o milliseconds

(***************************************************************************)
(* transcribeAudio: the retry loop (src/services/geminiService.ts)         *)
(***************************************************************************)
\* Mutant: one retry too many
maxRetriesMut == 3 + 1

maxRetries == 3

\* A JavaScript value of an error's status / code field
Undef == [t |-> "undef", n |-> 0, s |-> ""]
N(n) == [t |-> "num", n |-> n, s |-> ""]
S(s) == [t |-> "str", n |-> 0, s |-> s]
Truthy(x) == (x.t = "num" /\ x.n # 0) \/ (x.t = "str" /\ x.s # "")

\* An error object; id is the identity of the object (the index of the
\* attempt that raised it, -1 for errors raised before the loop, -2 for none)
Err(status, code, message) ==
    [status |-> status, code |-> code, message |-> message, id |-> -2]

NoError == Err(Undef, Undef, "")
ApiKeyError == [Err(Undef, Undef, "API_KEY environment variable is not set.") EXCEPT !.id = -1]
ReaderError == [Err(Undef, Undef, "") EXCEPT !.id = -1]

\* The failures the remote call is made to raise
Errors ==
    { Err(N(503), Undef, "The model is overloaded. Please try again later."),
      Err(N(503), Undef, ""),
      Err(N(503), Undef, "Please Retry in 5s"),
      Err(N(503), Undef, "retry in .s"),
      Err(N(503), Undef, "Service Unavailable, retry in 0.5s"),
      Err(N(429), Undef, "You exceeded your current quota. Please retry in 37.2s."),
      Err(N(429), Undef, "Too Many Requests"),
      Err(N(429), Undef, "retry in 0s"),
      Err(N(429), Undef, "retry in 5 minutes or retry in 7s"),
      Err(Undef, S("UNAVAILABLE"), ""),
      Err(Undef, S("RESOURCE_EXHAUSTED"), "retry in 5s"),
      Err(Undef, N(503), "Service Unavailable"),
      Err(N(400), Undef, "Bad Request"),
      Err(N(400), Undef, "Model Overloaded"),
      Err(N(400), S("UNAVAILABLE"), "Bad Request"),
      Err(N(400), S("INVALID_ARGUMENT"), "Request exceeds the Quota, retry in 1.2.3s"),
      Err(N(401), Undef, "API key not valid"),
      Err(N(500), S("UNAVAILABLE"), "Internal error"),
      Err(Undef, Undef, "") }

\* The payloads response.text can hold
Payloads == { "", "[{\"start\":0,\"end\":1.5,\"text\":\"hi\"}]" }

\* Mutant: a default payload instead of the one the attempt returned
ResolvedDefault(text) == [set |-> TRUE, text |-> ""]

Unset == [set |-> FALSE, text |-> ""]
Resolved(text) == [set |-> TRUE, text |-> text]

\* Mutant: error.code || error.status
errorCodeSwapped(error) == IF Truthy(error.code) THEN error.code ELSE error.status

\* const errorCode = error.status || error.code
errorCode(error) == IF Truthy(error.status) THEN error.status ELSE error.code

isOverloaded(error) ==
    \/ errorCode(error) = N(503)
    \/ includes(toLowerCase(error.message), "overloaded")
    \/ errorCode(error) = S("UNAVAILABLE")

isRateLimited(error) ==
    \/ errorCode(error) = N(429)
    \/ errorCode(error) = S("RESOURCE_EXHAUSTED")
    \/ includes(toLowerCase(error.message), "quota")

\* /retry in ([\d\.]+)s/
retryRegex ==
    Lit("retry in ") \o <<Open(1)>> \o Plus(Cls(Digits \cup {"."}))
        \o <<Close(1)>> \o Lit("s")

\* Mutant: the exponential schedule starts one step late
waitTimeDoubled(error, i) ==
    LET retryMatch == exec(retryRegex, error.message, 1)
    IN IF retryMatch.ok /\ Group(error.message, retryMatch, 1) # ""
       THEN Add(Mul(ceil(parseFloat(Group(error.message, retryMatch, 1))), Num(1000)),
                Num(1000))
       ELSE Num(2000 * Pow(2, i + 1))

\* Mutant: the server's hint is honoured on the first attempt only
waitTimeHintFirstOnly(error, i) ==
    LET retryMatch == exec(retryRegex, error.message, 1)
    IN IF retryMatch.ok /\ Group(error.message, retryMatch, 1) # "" /\ i = 0
       THEN Add(Mul(ceil(parseFloat(Group(error.message, retryMatch, 1))), Num(1000)),
                Num(1000))
       ELSE Num(2000 * Pow(2, i))

\* The wait computed in the catch block for a retried failure
waitTime(error, i) ==
    LET retryMatch == exec(retryRegex, error.message, 1)
    IN IF retryMatch.ok /\ Group(error.message, retryMatch, 1) # ""
       THEN Add(Mul(ceil(parseFloat(Group(error.message, retryMatch, 1))), Num(1000)),
                Num(1000))
       ELSE Num(2000 * Pow(2, i))

\* Mutant: every failure is retried while attempts remain
retriesAnyError(error, i) == i < maxRetries - 1

\* Mutant: a transient failure is retried even after the final attempt
retriesNoBound(error, i) == isOverloaded(error) \/ isRateLimited(error)

\* (isOverloaded || isRateLimited) && attempt < maxRetries - 1
retries(error, i) == (isOverloaded(error) \/ isRateLimited(error)) /\ i < maxRetries - 1

Event(e, i, error, ms, text) == [e |-> e, i |-> i, error |-> error, ms |-> ms, text |-> text]

CallInit ==
    /\ pc = "start"
    /\ attempt = 0
    /\ lastError = NoError
    /\ result = Unset
    /\ thrown = NoError
    /\ inFlight = 0
    /\ log = <<>>

\* if (!process.env.API_KEY) throw ...
Start ==
    /\ pc = "start"
    /\ \E key \in BOOLEAN :
         IF key
         THEN pc' = "encoding" /\ thrown' = thrown
         ELSE pc' = "rejected" /\ thrown' = ApiKeyError
    /\ UNCHANGED <<attempt, lastError, result, inFlight, log, tsVars, ptVars, ftVars, uiVars>>

\* const audioBase64 = await fileToBase64(audioFile)
Encode ==
    /\ pc = "encoding"
    /\ \E ok \in BOOLEAN :
         IF ok
         THEN pc' = "loop" /\ thrown' = thrown
         ELSE pc' = "rejected" /\ thrown' = ReaderError
    /\ UNCHANGED <<attempt, lastError, result, inFlight, log, tsVars, ptVars, ftVars, uiVars>>

\* The loop head and the call of ai.models.generateContent
Request ==
    /\ pc = "loop"
    /\ IF attempt < maxRetries
       THEN /\ pc' = "inflight"
            /\ inFlight' = inFlight + 1
            /\ log' = Append(log, Event("request", attempt, NoError, NaN, ""))
            /\ thrown' = thrown
       ELSE /\ pc' = "rejected"
            /\ thrown' = lastError
            /\ UNCHANGED <<inFlight, log>>
    /\ UNCHANGED <<attempt, lastError, result, tsVars, ptVars, ftVars, uiVars>>

\* Mutant: the payload is stored but the loop goes on (a missing return)
SucceedAndContinue ==
    /\ pc = "inflight"
    /\ \E text \in Payloads :
         /\ result' = Resolved(text)
         /\ log' = Append(log, Event("success", attempt, NoError, NaN, text))
    /\ pc' = "loop"
    /\ attempt' = attempt + 1
    /\ inFlight' = inFlight - 1
    /\ UNCHANGED <<lastError, thrown, tsVars, ptVars, ftVars, uiVars>>

\* The awaited request is fulfilled: return response.text
Succeed ==
    /\ pc = "inflight"
    /\ \E text \in Payloads :
         /\ result' = Resolved(text)
         /\ log' = Append(log, Event("success", attempt, NoError, NaN, text))
    /\ pc' = "resolved"
    /\ inFlight' = inFlight - 1
    /\ UNCHANGED <<attempt, lastError, thrown, tsVars, ptVars, ftVars, uiVars>>

\* The awaited request is rejected: the catch block
Fail ==
    /\ pc = "inflight"
    /\ \E e \in Errors :
         LET error == [e EXCEPT !.id = attempt]
         IN /\ lastError' = error
            /\ IF retries(error, attempt)
               THEN /\ pc' = "waiting"
                    /\ log' = log \o << Event("failure", attempt, error, NaN, ""),
                                        Event("wait", attempt, error,
                                              waitTime(error, attempt), "") >>
                    /\ thrown' = thrown
               ELSE /\ pc' = "rejected"
                    /\ log' = Append(log, Event("failure", attempt, error, NaN, ""))
                    /\ thrown' = error
    /\ inFlight' = inFlight - 1
    /\ UNCHANGED <<attempt, result, tsVars, ptVars, ftVars, uiVars>>

\* await delay(waitTime) completes; continue
Resume ==
    /\ pc = "waiting"
    /\ pc' = "loop"
    /\ attempt' = attempt + 1
    /\ log' = Append(log, Event("resume", attempt, NoError, NaN, ""))
    /\ UNCHANGED <<lastError, result, thrown, inFlight, tsVars, ptVars, ftVars, uiVars>>

CallIdle ==
    /\ attempt = 0
    /\ lastError = NoError
    /\ result = Unset
    /\ thrown = NoError
    /\ inFlight = 0
    /\ log = <<>>

TsIdle == tsIn = JUndef /\ tsOut = NaN
PtIdle == ptIn = "" /\ ptOut = <<>>

FtCall(ms, format, separator) == [ms |-> ms, format |-> format, separator |-> separator]
FtIdle == ftIn = FtCall([n |-> 0, d |-> 1], "", "") /\ ftOut = ""

\* What a transcribeAudio call settles with: a payload or a raised error
Outcome(ok, text, error) == [ok |-> ok, text |-> text, error |-> error]
NoOutcome == Outcome(FALSE, "", NoError)

\* The handler that ran last: its name, the item id and the processFile run
\* it acted for ("all" / "single"), and the outcome it received
Ran(op, id, by, outcome) == [op |-> op, id |-> id, by |-> by, outcome |-> outcome]

NoId == 0

\* Lines 232-234: the state of App after construction
UiInit ==
    /\ items = <<>>
    /\ activeId = NoId
    /\ isProcessingQueue = FALSE
    /\ idleItems = <<>>
    /\ queuePos = 0
    /\ singles = <<>>
    /\ nextId = 1
    /\ step = Ran("init", NoId, "", NoOutcome)

\* No payload has been handed to the queue
UiIdle == UiInit /\ parsed = <<>>

Init == CallInit /\ TsIdle /\ PtIdle /\ FtIdle /\ UiIdle

Next ==
    \/ Start
    \/ Encode
    \/ Request
    \/ Succeed
    \/ Fail
    \/ Resume

Spec == Init /\ [][Next]_vars

\* The event loop runs the continuation of a settled await: the timer of
\* delay() fires and the loop issues its next request
LiveSpec == Spec /\ WF_vars(Resume) /\ WF_vars(Request)

(***************************************************************************)
(* parseTimestamp applied to one argument                                  *)
(***************************************************************************)
MaxLen == 3     \* longest string drawn from TsAlphabet
MaxNum == 12    \* largest numerator of a numeric argument

TsAlphabet == {"0", "1", "5", ":", ".", ",", "-", "m", "s", "x"}

RECURSIVE Strings(_, _)
Strings(alphabet, n) ==
    IF n = 0 THEN {""}
    ELSE LET shorter == Strings(alphabet, n - 1)
         IN shorter \cup {str \o c : str \in shorter, c \in alphabet}

\* Timestamps in the forms the remote model emits, and malformed ones
TsSamples ==
    { "00:00:01.000", "00:01:02.500", "01:02:03,250", "1:02,5", "12:34",
      "[00:01]", "\"00:00:07.5\"", " 7 ", "1500ms", "5msms", "-5ms", "1.5s",
      "90", "0.25", "1:2:3:4", "1:2:3:x", "1:2:3:4:5", "1:5x", "1,5.2",
      "1.5,2", "1:00.", "1:00.1234", "1:00.-5", "-1:00", "abc", "[]", "  ",
      "10:20:30", "1:2:3.25", "1:2:3,4567", "0:0:1:050", "1:2:3:4.5",
      "1:2:3:4567", "5:4:3:2:1", "1:2:3:4:5:6", "0:90", "1:02:03.5x",
      "1,222.5", "1.222,5", "12:34 pm" }

\* Numbers with at most three decimals (their product with 1000 is an
\* integer, so floating-point rounding does not show)
TsNumbers == {JNum(n, d) : n \in (0 - MaxNum)..MaxNum, d \in {1, 10, 1000}}

TsInputs ==
    {JStr(str) : str \in Strings(TsAlphabet, MaxLen) \cup TsSamples}
        \cup TsNumbers \cup {JUndef, JNull}

InitTs ==
    /\ pc = "ts_call"
    /\ tsIn \in TsInputs
    /\ tsOut = NaN
    /\ CallIdle
    /\ PtIdle
    /\ FtIdle
    /\ UiIdle

ParseTimestampCall ==
    /\ pc = "ts_call"
    /\ tsOut' = parseTimestamp(tsIn)
    /\ pc' = "ts_done"
    /\ UNCHANGED <<attempt, lastError, result, thrown, inFlight, log, tsIn, ptVars, ftVars, uiVars>>

NextTs == ParseTimestampCall

SpecTs == InitTs /\ [][NextTs]_vars

(***************************************************************************)
(* parseTranscription applied to one payload                               *)
(***************************************************************************)
MaxElems == 2   \* most elements of a JSON array payload
MaxLines == 2   \* most lines of a plain-text payload

\* Elements of a JSON array payload
JsonElems ==
    { "{\"start\":0,\"end\":1.5,\"text\":\"hi\"}",
      "{\"start\":2,\"end\":1,\"text\":\"yo\"}",
      "{\"start\":\"00:00:01.000\",\"end\":\"00:00:02,500\",\"word\":\"a b\"}",
      "{\"start\":-1,\"end\":1,\"text\":\" \"}",
      "{\"start\":1,\"end\":2}",
      "{\"start\":\"x\",\"end\":2,\"text\":\"bad\"}",
      "{\"start\":true,\"end\":1,\"text\":\"t\"}",
      "null" }

\* Lines of a plain-text payload
TextLines ==
    { "00:00:01.000 --> 00:00:02.500 \"Hello there\"",
      "00:05 -> 00:01 1 late",
      "1500ms --> 2000ms ' '",
      "7 --> 8",
      "WEBVTT",
      "",
      "{\"start\": \"1 --> 2 x\"}" }

Seqs(set, n) == UNION {[1..k -> set] : k \in 0..n}

RECURSIVE join(_, _)
join(seq, sep) ==
    IF seq = <<>> THEN ""
    ELSE IF Len(seq) = 1 THEN seq[1]
    ELSE seq[1] \o sep \o join(Tail(seq), sep)

PtInputs ==
    {"[" \o join(elems, ", ") \o "]" : elems \in Seqs(JsonElems, MaxElems)}
        \cup {join(lines, "\n") : lines \in Seqs(TextLines, MaxLines)}
        \cup {"5", "\"00:01 --> 00:02 hi\"", "[1,]", "{}", "[[]]", "[5, \"x\"]",
              "[\"00:01 --> 00:02 hi\"]", "[{\"from\":1,\"to\":2,\"text\":\"3 --> 4 x\"}]"}

InitPt ==
    /\ pc = "pt_call"
    /\ ptIn \in PtInputs
    /\ ptOut = <<>>
    /\ CallIdle
    /\ TsIdle
    /\ FtIdle
    /\ UiIdle

ParseTranscriptionCall ==
    /\ pc = "pt_call"
    /\ ptOut' = parseTranscription(ptIn)
    /\ pc' = "pt_done"
    /\ UNCHANGED <<attempt, lastError, result, thrown, inFlight, log, tsVars, ptIn, ftVars, uiVars>>

NextPt == ParseTranscriptionCall

SpecPt == InitPt /\ [][NextPt]_vars

(***************************************************************************)
(* formatTime followed by parseTimestamp                                   *)
(***************************************************************************)
MaxMs == 40     \* every millisecond count up to this one is formatted

\* Millisecond counts around the carries of the clock fields, up to three
\* digit hours
FtClockValues ==
    { (h * 3600000) + (m * 60000) + (sec * 1000) + f :
        h \in {0, 1, 10, 100}, m \in {0, 5, 59}, sec \in {0, 7, 59},
        f \in {0, 5, 50, 500, 999} }

FtInputs ==
    { FtCall([n |-> n, d |-> 1], TimestampFormat.HMS, sep) :
        n \in (0..MaxMs) \cup FtClockValues, sep \in {".", ","} }
      \cup { FtCall([n |-> n, d |-> 1], TimestampFormat.MS, ".") :
                n \in {0, 5, 1500, 999999, 1000000, 86400000} }
      \cup { FtCall([n |-> n, d |-> d], TimestampFormat.HMS, ".") :
                n \in {-1500, -1, 1, 3, 2999}, d \in {1, 2} }

InitFt ==
    /\ pc = "ft_call"
    /\ ftIn \in FtInputs
    /\ ftOut = ""
    /\ CallIdle
    /\ TsIdle
    /\ PtIdle
    /\ UiIdle

\* formatTime is applied and its result is handed to parseTimestamp
FormatTimeCall ==
    /\ pc = "ft_call"
    /\ ftOut' = formatTime(ftIn.ms, ftIn.format, ftIn.separator)
    /\ tsIn' = JStr(ftOut')
    /\ pc' = "ts_call"
    /\ UNCHANGED <<attempt, lastError, result, thrown, inFlight, log, tsOut, ptVars, ftIn, uiVars>>

NextFt == FormatTimeCall \/ ParseTimestampCall

SpecFt == InitFt /\ [][NextFt]_vars

(***************************************************************************)
(* The file queue of App: handleFilesAdded, removeFile, clearAllFiles,     *)
(* processFile, handleTranscribeAll, handleTranscribeSingle (src/App.tsx)  *)
(***************************************************************************)
MaxItems == 2     \* ids handed out in one behaviour
MaxFiles == 2     \* files dropped at once
MaxSingles == 2   \* handleTranscribeSingle runs awaiting on one item

\* Payloads transcribeAudio resolves with: empty, plain text without cues,
\* a JSON array of two cues
UiPayloads ==
    { "",
      "no timestamps here",
      "[{\"start\":0,\"end\":1.5,\"text\":\"hi\"}, {\"start\":\"00:00:02.000\",\"end\":\"00:00:03.000\",\"word\":\"a b\"}]" }

\* Errors transcribeAudio rejects with: the last error of the retry loop and
\* the event of FileReader.onerror, which is no Error instance
UiErrors ==
    { [Err(N(503), Undef, "The model is overloaded. Please try again later.") EXCEPT !.id = 2],
      ReaderError }

Outcomes ==
    {Outcome(TRUE, text, NoError) : text \in UiPayloads}
        \cup {Outcome(FALSE, "", error) : error \in UiErrors}

\* Lines 282-290: a new queue item
Item(id) ==
    [id |-> id, status |-> "idle", cues |-> <<>>, fullTranscript |-> "", error |-> Undef]

Ids(its) == {its[k].id : k \in DOMAIN its}
ItemOf(its, id) == its[CHOOSE k \in DOMAIN its : its[k].id = id]

\* Lines 314-316, applied to the queue `prev`
updateItemStatus(prev, id, updates) ==
    [k \in DOMAIN prev |-> IF prev[k].id = id THEN updates @@ prev[k] ELSE prev[k]]

\* Mutant: the cue texts are joined even when no cue was extracted
fullTextAlwaysJoined(text, cues) ==
    join([k \in DOMAIN cues |-> cues[k].word.s], " ")

\* Lines 326-331
fullText(text, cues) ==
    IF Len(cues) = 0 /\ Len(text) > 0 THEN text
    ELSE join([k \in DOMAIN cues |-> cues[k].word.s], " ")

\* err instanceof Error
instanceofError(err) == err # ReaderError

\* Line 319: processFile up to its await
processFileStart(its, id) ==
    updateItemStatus(its, id, [status |-> "transcribing", error |-> Undef])

\* Lines 324-342: processFile after the awaited call has settled
processFileSettle(its, id, outcome) ==
    IF outcome.ok
    THEN updateItemStatus(its, id,
             [status |-> "completed",
              cues |-> parsed[outcome.text],
              fullTranscript |-> fullText(outcome.text, parsed[outcome.text])])
    ELSE updateItemStatus(its, id,
             [status |-> "error",
              error |-> S(IF instanceofError(outcome.error)
                          THEN outcome.error.message ELSE "Unknown error")])

Startable(item) == item.status \in {"idle", "error"}

\* Lines 281-298
HandleFilesAdded ==
    /\ \E n \in 1..MaxFiles :
         /\ nextId + n - 1 <= MaxItems
         /\ items' = items \o [k \in 1..n |-> Item(nextId + k - 1)]
         /\ singles' = singles \o [k \in 1..n |-> 0]
         /\ nextId' = nextId + n
    /\ activeId' = IF activeId = NoId THEN nextId ELSE activeId
    /\ step' = Ran("handleFilesAdded", nextId, "", NoOutcome)
    /\ UNCHANGED <<isProcessingQueue, idleItems, queuePos, parsed, callVars, tsVars, ptVars, ftVars>>

\* Lines 300-306; the button of line 587 is shown on every item
RemoveFile ==
    /\ \E id \in Ids(items) :
         /\ items' = SelectSeq(items, LAMBDA i : i.id # id)
         /\ activeId' = IF activeId = id THEN NoId ELSE activeId
         /\ step' = Ran("removeFile", id, "", NoOutcome)
    /\ UNCHANGED <<isProcessingQueue, idleItems, queuePos, singles, nextId,
                   parsed, callVars, tsVars, ptVars, ftVars>>

\* Lines 308-312; the button of lines 544-553
ClearAllFiles ==
    /\ Len(items) > 0
    /\ ~isProcessingQueue
    /\ items' = <<>>
    /\ activeId' = NoId
    /\ step' = Ran("clearAllFiles", NoId, "", NoOutcome)
    /\ UNCHANGED <<isProcessingQueue, idleItems, queuePos, singles, nextId,
                   parsed, callVars, tsVars, ptVars, ftVars>>

\* Line 575: a click on a queue entry
SelectItem ==
    /\ \E id \in Ids(items) :
         /\ activeId # id
         /\ activeId' = id
         /\ step' = Ran("setActiveId", id, "", NoOutcome)
    /\ UNCHANGED <<items, isProcessingQueue, idleItems, queuePos, singles, nextId,
                   parsed, callVars, tsVars, ptVars, ftVars>>

\* Lines 345-353 up to the first await; the button of lines 554-562 is
\* enabled when the queue is idle and some item is 'idle' or 'error'
HandleTranscribeAll ==
    /\ Len(items) > 0
    /\ ~isProcessingQueue
    /\ \E k \in DOMAIN items : Startable(items[k])
    /\ LET idle == SelectSeq(items, Startable)
       IN /\ idleItems' = [k \in DOMAIN idle |-> idle[k].id]
          /\ items' = processFileStart(items, idle[1].id)
          /\ step' = Ran("handleTranscribeAll", idle[1].id, "all", NoOutcome)
    /\ isProcessingQueue' = TRUE
    /\ queuePos' = 1
    /\ UNCHANGED <<activeId, singles, nextId, parsed, callVars, tsVars, ptVars, ftVars>>

\* Lines 359-362 up to the await; the buttons of lines 599-606 and 735-740
\* are shown for an item that is 'idle' or 'error'
HandleTranscribeSingle ==
    /\ \E id \in Ids(items) :
         /\ Startable(ItemOf(items, id))
         /\ singles[id] < MaxSingles
         /\ items' = processFileStart(items, id)
         /\ singles' = [singles EXCEPT ![id] = @ + 1]
         /\ step' = Ran("handleTranscribeSingle", id, "single", NoOutcome)
    /\ UNCHANGED <<activeId, isProcessingQueue, idleItems, queuePos, nextId,
                   parsed, callVars, tsVars, ptVars, ftVars>>

\* The call awaited by a handleTranscribeSingle run settles: lines 324-342
SettleSingleOf(id) ==
    /\ id \in DOMAIN singles
    /\ singles[id] > 0
    /\ \E outcome \in Outcomes :
         /\ items' = processFileSettle(items, id, outcome)
         /\ step' = Ran("settle", id, "single", outcome)
    /\ singles' = [singles EXCEPT ![id] = @ - 1]
    /\ UNCHANGED <<activeId, isProcessingQueue, idleItems, queuePos, nextId,
                   parsed, callVars, tsVars, ptVars, ftVars>>

SettleSingle == \E id \in 1..MaxItems : SettleSingleOf(id)

\* Mutant: the loop of handleTranscribeAll ends at the first failure
SettleQueuedStopsAtFailure ==
    /\ isProcessingQueue
    /\ \E outcome \in Outcomes :
         LET id == idleItems[queuePos]
             settled == processFileSettle(items, id, outcome)
         IN /\ IF queuePos < Len(idleItems) /\ outcome.ok
               THEN /\ items' = processFileStart(settled, idleItems[queuePos + 1])
                    /\ isProcessingQueue' = TRUE
               ELSE /\ items' = settled
                    /\ isProcessingQueue' = FALSE
            /\ step' = Ran("settle", id, "all", outcome)
    /\ queuePos' = queuePos + 1
    /\ UNCHANGED <<activeId, idleItems, singles, nextId,
                   parsed, callVars, tsVars, ptVars, ftVars>>

\* The call awaited by the loop of handleTranscribeAll settles: processFile
\* finishes (lines 324-342), then the loop starts processFile on its next
\* item (lines 352-353, 319) or ends (line 356)
SettleQueued ==
    /\ isProcessingQueue
    /\ \E outcome \in Outcomes :
         LET id == idleItems[queuePos]
             settled == processFileSettle(items, id, outcome)
         IN /\ IF queuePos < Len(idleItems)
               THEN /\ items' = processFileStart(settled, idleItems[queuePos + 1])
                    /\ isProcessingQueue' = TRUE
               ELSE /\ items' = settled
                    /\ isProcessingQueue' = FALSE
            /\ step' = Ran("settle", id, "all", outcome)
    /\ queuePos' = queuePos + 1
    /\ UNCHANGED <<activeId, idleItems, singles, nextId,
                   parsed, callVars, tsVars, ptVars, ftVars>>

InitUi ==
    /\ pc = "ui"
    /\ CallIdle
    /\ TsIdle
    /\ PtIdle
    /\ FtIdle
    /\ UiInit
    /\ parsed = [text \in UiPayloads |-> parseTranscription(text)]

NextUi ==
    \/ HandleFilesAdded
    \/ RemoveFile
    \/ ClearAllFiles
    \/ SelectItem
    \/ HandleTranscribeAll
    \/ HandleTranscribeSingle
    \/ SettleSingle
    \/ SettleQueued

SpecUi == InitUi /\ [][NextUi]_vars

\* Every transcribeAudio call settles (C1-C4: the retry loop ends after at
\* most three attempts), and the continuation of the await then runs
LiveSpecUi ==
    SpecUi /\ WF_vars(SettleQueued) /\ \A id \in 1..MaxItems : WF_vars(SettleSingleOf(id))

(***************************************************************************)
(* Properties of transcribeAudio                                           *)
(***************************************************************************)
EventsOf(e) == {k \in DOMAIN log : log[k].e = e}

\* The classification of the catch block, lines 100-101
Transient(error) == isOverloaded(error) \/ isRateLimited(error)

HasHint(error) == exec(retryRegex, error.message, 1).ok

\* C1: one invocation issues at most 3 remote requests, with attempt
\* indices 0, 1 and 2; there is never a fourth request.
C1_AtMostThreeRequests ==
    /\ Cardinality(EventsOf("request")) <= 3
    /\ \A k \in EventsOf("request") : log[k].i \in {0, 1, 2}
    /\ \A k, l \in EventsOf("request") : k # l => log[k].i # log[l].i

C1_Witness ==
    /\ Cardinality(EventsOf("request")) = 3
    /\ pc = "rejected"

\* C2: an attempt that fails with a failure not classified transient is
\* followed by no wait and no further attempt, and the invocation rejects
\* with exactly the error object of that attempt, at any attempt index.
C2_TerminalFailureRaisedAtOnce ==
    \A k \in EventsOf("failure") :
        ~Transient(log[k].error) =>
            /\ k = Len(log)
            /\ pc = "rejected"
            /\ inFlight = 0
            /\ thrown = log[k].error
            /\ thrown.id = log[k].i
            /\ ~result.set

C2_Witness ==
    /\ pc = "rejected"
    /\ log # <<>>
    /\ log[Len(log)].e = "failure"
    /\ log[Len(log)].i = 1
    /\ ~Transient(log[Len(log)].error)

\* C3: when all three attempts fail with transient failures the invocation
\* rejects with the error of the third attempt; it resolves only when an
\* attempt succeeded, and then with the payload that attempt returned.
C3_LastErrorOrRealPayload ==
    /\ (/\ Cardinality(EventsOf("failure")) = 3
        /\ \A k \in EventsOf("failure") : Transient(log[k].error))
       => /\ pc = "rejected"
          /\ thrown = log[Len(log)].error
          /\ thrown.id = 2
          /\ ~result.set
    /\ result.set <=> pc = "resolved"
    /\ result.set =>
          /\ log[Len(log)].e = "success"
          /\ result.text = log[Len(log)].text
    /\ pc = "rejected" => thrown # NoError

C3_Witness ==
    /\ Cardinality(EventsOf("failure")) = 3
    /\ \A k \in EventsOf("failure") : Transient(log[k].error)
    /\ pc = "rejected"

\* C4: once an attempt has succeeded (at index 0, 1 or 2) the payload is
\* returned at once: no wait and no request follows the success.
C4_NothingAfterSuccess ==
    \A k \in EventsOf("success") :
        /\ k = Len(log)
        /\ pc = "resolved"
        /\ inFlight = 0
        /\ result.text = log[k].text

C4_Witness ==
    /\ pc = "resolved"
    /\ log[Len(log)].e = "success"
    /\ log[Len(log)].i = 1
    /\ result.text # ""

\* The waits of the invocation, in order
Waits == [j \in 1..Cardinality(EventsOf("wait")) |->
            log[CHOOSE k \in EventsOf("wait") :
                    Cardinality({l \in EventsOf("wait") : l <= k}) = j].ms]

FailedWith503NoHint(i) ==
    \E k \in EventsOf("failure") :
        /\ log[k].i = i
        /\ errorCode(log[k].error) = N(503)
        /\ ~HasHint(log[k].error)

\* C5: after a transient failure at attempt index i with attempts remaining
\* and no retry hint in the message, the wait is 2000 * 2^i ms; a call that
\* fails with 503 twice and then succeeds returns the success payload after
\* waits of 2000 ms and 4000 ms.
C5_ExponentialBackoff ==
    /\ \A k \in EventsOf("wait") :
          ~HasHint(log[k].error) =>
              log[k].ms = Num(IF log[k].i = 0 THEN 2000 ELSE 4000)
    /\ (pc = "resolved" /\ FailedWith503NoHint(0) /\ FailedWith503NoHint(1))
          => /\ Waits = <<Num(2000), Num(4000)>>
             /\ result.text = log[Len(log)].text

C5_Witness ==
    /\ pc = "resolved"
    /\ FailedWith503NoHint(0)
    /\ FailedWith503NoHint(1)
    /\ log[Len(log)].i = 2

\* The number of the hint "retry in <number>s" of a message
HintNumber(error) ==
    parseFloat(Group(error.message, exec(retryRegex, error.message, 1), 1))

\* C6: when the message of the failure embeds "retry in <number>s", the wait
\* is ceil(number) * 1000 + 1000 ms whatever the attempt index; "retry in 5s"
\* gives 6000 ms at attempt 0 and at attempt 1.
C6_ServerHintWait ==
    \A k \in EventsOf("wait") :
        /\ (HasHint(log[k].error) /\ ~HintNumber(log[k].error).nan) =>
              log[k].ms = Num(ceil(HintNumber(log[k].error)).v * 1000 + 1000)
        /\ includes(log[k].error.message, "retry in 5s") => log[k].ms = Num(6000)
        /\ includes(log[k].error.message, "retry in 37.2s") => log[k].ms = Num(39000)
        /\ includes(log[k].error.message, "retry in 0s") => log[k].ms = Num(1000)

C6_Witness ==
    /\ Len(Waits) = 2
    /\ \A k \in EventsOf("wait") :
          /\ includes(log[k].error.message, "retry in 5s")
          /\ log[k].ms = Num(6000)

\* C7 as stated: a failure with status code 400 is never retried, whatever
\* the message and the other fields of the error are.
C7_Status400NeverRetried ==
    \A k \in EventsOf("failure") :
        log[k].error.status = N(400) =>
            /\ k = Len(log)
            /\ pc = "rejected"
            /\ thrown = log[k].error

\* C7 amended: a failure with status code 400 whose message contains neither
\* "overloaded" nor "quota" (in any letter case) is never retried, whatever
\* its code field is: the invocation rejects with that error at once.
C7_Status400PlainMessageNeverRetried ==
    \A k \in EventsOf("failure") :
        (/\ log[k].error.status = N(400)
         /\ ~includes(toLowerCase(log[k].error.message), "overloaded")
         /\ ~includes(toLowerCase(log[k].error.message), "quota")) =>
            /\ k = Len(log)
            /\ pc = "rejected"
            /\ thrown = log[k].error
            /\ Cardinality(EventsOf("request")) = log[k].i + 1

C7_Witness ==
    /\ pc = "rejected"
    /\ Len(log) = 2
    /\ log[2].e = "failure"
    /\ log[2].error.status = N(400)
    /\ log[2].error.code = S("UNAVAILABLE")

TransientFailedAt(i) ==
    \E k \in EventsOf("failure") : log[k].i = i /\ Transient(log[k].error)

RequestedAt(i) == \E k \in EventsOf("request") : log[k].i = i

C8_Sequential ==
    /\ inFlight \in {0, 1}
    /\ inFlight = 1 <=> pc = "inflight"
    /\ \A k \in EventsOf("request") :
          IF log[k].i = 0 THEN k = 1
          ELSE /\ k >= 5
               /\ log[k - 3].e = "failure" /\ log[k - 3].i = log[k].i - 1
               /\ Transient(log[k - 3].error)
               /\ log[k - 2].e = "wait" /\ log[k - 2].i = log[k].i - 1
               /\ log[k - 1].e = "resume"
    /\ \A k \in EventsOf("failure") :
          /\ log[k - 1].e = "request" /\ log[k - 1].i = log[k].i
          /\ (Transient(log[k].error) /\ log[k].i < 2) =>
                /\ Len(log) > k /\ log[k + 1].e = "wait"
                /\ Len(log) > k + 1 => log[k + 2].e = "resume"
                /\ Len(log) > k + 2 => log[k + 3].e = "request"
                /\ Len(log) = k + 1 => pc = "waiting"
    /\ \A k \in EventsOf("wait") :
          /\ log[k].i < 2
          /\ log[k - 1].e = "failure" /\ log[k - 1].i = log[k].i

C8_Steps ==
    /\ pc = "waiting" => pc' = "loop" /\ attempt' = attempt + 1
    /\ pc = "loop" => pc' = "inflight" /\ inFlight' = 1 /\ attempt' = attempt

\* C8: the events of one invocation are strictly sequential, attempt ->
\* wait -> attempt: at most one request is in flight, attempt i+1 starts
\* only after attempt i failed transiently and its wait completed, every
\* transient failure at index i < 2 is followed by attempt i+1, and no wait
\* follows the failure of the final attempt.
C8_StrictlySequential ==
    /\ []C8_Sequential
    /\ [][C8_Steps]_vars
    /\ \A i \in {0, 1} : TransientFailedAt(i) ~> RequestedAt(i + 1)

C8_Witness ==
    /\ pc = "rejected"
    /\ RequestedAt(2)
    /\ TransientFailedAt(2)
    /\ Len(log) = 10

(***************************************************************************)
(* Properties of parseTimestamp and parseTranscription                     *)
(***************************************************************************)
\* C9 as stated: for every number and every string parseTimestamp returns a
\* non-negative integer or NaN, never a negative number.
C9_NeverNegative ==
    (pc = "ts_done" /\ tsIn.t \in {"num", "str"}) => (isNaN(tsOut) \/ tsOut.v >= 0)

\* C10 as stated: every cue parseTranscription returns has start >= 0,
\* end >= start, and a text that is non-empty after trimming.
C10_CueInvariants ==
    pc = "pt_done" =>
        \A k \in DOMAIN ptOut :
            /\ ptOut[k].start >= 0
            /\ ptOut[k].end >= ptOut[k].start
            /\ ptOut[k].word.t = "str"
            /\ trim(ptOut[k].word.s) # ""

\* A payload that decodes as a JSON array, and its elements
IsJsonArray(rawText) ==
    rawText # "" /\ JSONparse(rawText).ok /\ JSONparse(rawText).v.t = "arr"

ArrayItems(rawText) == JSONparse(rawText).v.items

\* A timestamp field that parseTimestamp can turn into a number
Parseable(timestamp) ==
    (timestamp.t \in {"num", "str"}) /\ ~isNaN(parseTimestamp(timestamp))

\* An element with parseable start and end and a non-empty text (or word)
ValidElement(item) ==
    /\ Parseable(Prop(item, "start"))
    /\ Parseable(Prop(item, "end"))
    /\ ~Falsy(Prop(item, "text")) \/ ~Falsy(Prop(item, "word"))

\* The cues of the valid elements, in array order
ValidCues(elems) ==
    filterCues([k \in DOMAIN elems |->
                   [keep |-> ValidElement(elems[k]), cue |-> structuredCue(elems[k]).cue]])

\* C11 as stated: for a JSON array payload the result is exactly the cues of
\* the valid elements in array order; an element with an unparseable start or
\* end or without text is dropped and never aborts the batch.
C11_CorruptElementsDropped ==
    (pc = "pt_done" /\ IsJsonArray(ptIn)) => ptOut = ValidCues(ArrayItems(ptIn))

\* C12 as stated: a JSON array from which no element survives is not final;
\* parseTranscription returns the cues of the pattern phase over the payload.
C12_EmptyArrayFallsThrough ==
    (pc = "pt_done" /\ IsJsonArray(ptIn) /\ ValidCues(ArrayItems(ptIn)) = <<>>)
        => ptOut = patternPhase(ptIn)

\* C13: a payload that is not valid JSON, or valid JSON that is not an array,
\* yields exactly the result of the pattern phase; the empty payload yields
\* the empty sequence.  (parseTranscription has no raising outcome here: the
\* pattern phase only applies parseTimestamp to strings.)
C13_FallbackToPatternPhase ==
    pc = "pt_done" =>
        /\ ptIn = "" => ptOut = <<>>
        /\ (ptIn # "" /\ ~IsJsonArray(ptIn)) => ptOut = patternPhase(ptIn)
        /\ ptIn = "\"00:01 --> 00:02 hi\"" => ptOut = <<Cue(JStr("hi"), 1000, 2000)>>
        /\ ptIn = "7 --> 8\nWEBVTT" => ptOut = <<Cue(JStr("WEBVTT"), 7000, 8000)>>

\* A JSON string (valid JSON, not an array) from which the pattern phase
\* extracts a cue
C13_Witness ==
    /\ pc = "pt_done"
    /\ JSONparse(ptIn).ok
    /\ JSONparse(ptIn).v.t = "str"
    /\ Len(ptOut) = 1

\* C14: for every integer ms >= 0, parseTimestamp(formatTime(ms, HMS)) = ms
\* with the default separator '.'.
C14_RoundTrip ==
    ( /\ pc = "ts_done"
      /\ ftIn.format = TimestampFormat.HMS
      /\ ftIn.separator = "."
      /\ ftIn.ms.d = 1
      /\ ftIn.ms.n >= 0 )
        => tsOut = Num(ftIn.ms.n)

\* 100:59:59.005 has been formatted and parsed back
C14_Witness ==
    /\ pc = "ts_done"
    /\ ftIn = FtCall([n |-> 363599005, d |-> 1], TimestampFormat.HMS, ".")
    /\ ftOut = "100:59:59.005"
    /\ tsOut = Num(363599005)

\* The string of line 126 reaches the clock-string branch (lines 132-166)
ClockTime(timestamp) == trim(removeChars(timestamp, {"[", "]", "\"", "'"}))

InClockBranch ==
    /\ pc = "ts_done"
    /\ tsIn.t = "str"
    /\ ClockTime(tsIn.s) # ""
    /\ ~endsWith(ClockTime(tsIn.s), "ms")
    /\ ~test(secondsRegex, ClockTime(tsIn.s))

\* The integer part and the fractional suffix the code splits `time` into
TimePart(time) == IF sepIndex(time) # -1 THEN SubSeq(time, 1, sepIndex(time)) ELSE time
Suffix(time) == IF sepIndex(time) # -1 THEN SubSeq(time, sepIndex(time) + 2, Len(time)) ELSE ""
Segments(time) == split(TimePart(time), ":")

DigitsOnly(str) == \A i \in 1..Len(str) : Ch(str, i) \in Digits
Numeric(str) == str # "" /\ DigitsOnly(str)

\* C15 as stated: in the clock-string branch, for a string holding both '.'
\* and ',', the fractional suffix starts after the greater of their last
\* indices.
C15_SplitAtLastSeparator ==
    LET time == ClockTime(tsIn.s)
    IN (InClockBranch /\ includes(time, ".") /\ includes(time, ","))
           => sepIndex(time) = Max({lastIndexOf(time, "."), lastIndexOf(time, ",")})

\* C16 as stated: a clock string with a segment, or a fractional suffix,
\* holding a character that is not a digit is unparseable.
C16_NonNumericSegmentFails ==
    LET time == ClockTime(tsIn.s)
    IN ( /\ InClockBranch
         /\ \/ \E k \in DOMAIN Segments(time) : ~DigitsOnly(Segments(time)[k])
            \/ ~DigitsOnly(Suffix(time)) )
           => isNaN(tsOut)

\* The milliseconds of a digit string: right-padded with zeros to three
\* digits, cut to three digits
Millis(digits) == DigitsVal(SubSeq(padEnd(digits, 3, "0"), 1, 3))

\* C17: a clock string whose integer part splits into n numeric segments
\* yields ((hours*3600 + minutes*60 + seconds) * 1000) + milliseconds, with
\* n = 1 seconds, n = 2 minutes:seconds, n = 3 hours:minutes:seconds, n = 4
\* hours:minutes:seconds and a sub-second segment (the digits of its integer
\* value, read as the milliseconds); n >= 5 is unparseable.
C17_SegmentCount ==
    LET time == ClockTime(tsIn.s)
        segs == Segments(time)
        n == Len(segs)
        val(k) == DigitsVal(segs[k])
    IN ( /\ InClockBranch
         /\ \A k \in DOMAIN segs : Numeric(segs[k])
         /\ DigitsOnly(Suffix(time)) )
           => tsOut =
                CASE n = 1 -> Num((val(1) * 1000) + Millis(Suffix(time)))
                  [] n = 2 -> Num((((val(1) * 60) + val(2)) * 1000) + Millis(Suffix(time)))
                  [] n = 3 -> Num((((val(1) * 3600) + (val(2) * 60) + val(3)) * 1000)
                                      + Millis(Suffix(time)))
                  [] n = 4 -> Num((((val(1) * 3600) + (val(2) * 60) + val(3)) * 1000)
                                      + Millis(natToString(val(4))))
                  [] OTHER -> NaN

\* 1:2:3:4 has been read as 1 h 2 min 3 s and 400 ms
C17_Witness ==
    /\ pc = "ts_done"
    /\ tsIn = JStr("1:2:3:4")
    /\ tsOut = Num(3723400)

(***************************************************************************)
(* Properties of the file queue                                            *)
(***************************************************************************)
\* C18: after transcribeAudio succeeded, the item (if still queued) is
\* 'completed'; with a non-empty payload and zero cues its fullTranscript is
\* the raw payload, with at least one cue it is the cue texts joined by
\* single spaces.
C18_FullTranscript ==
    (pc = "ui" /\ step.op = "settle" /\ step.outcome.ok /\ step.id \in Ids(items)) =>
        LET item == ItemOf(items, step.id)
            text == step.outcome.text
        IN /\ item.status = "completed"
           /\ item.cues = parsed[text]
           /\ (Len(item.cues) = 0 /\ text # "") => item.fullTranscript = text
           /\ Len(item.cues) >= 1 =>
                  item.fullTranscript = join([k \in DOMAIN item.cues |-> item.cues[k].word.s], " ")
           /\ Len(item.cues) = 2 =>
                  /\ item.cues = <<Cue(JStr("hi"), 0, 1500), Cue(JStr("a b"), 2000, 3000)>>
                  /\ item.fullTranscript = "hi a b"
           /\ text = "no timestamps here" => item.cues = <<>>

\* A payload without cues has become the transcript of a completed item
C18_Witness ==
    /\ step.op = "settle"
    /\ step.outcome = Outcome(TRUE, "no timestamps here", NoError)
    /\ step.id \in Ids(items)
    /\ ItemOf(items, step.id).status = "completed"
    /\ ItemOf(items, step.id).cues = <<>>
    /\ ItemOf(items, step.id).fullTranscript = "no timestamps here"

\* The processFile runs awaiting transcribeAudio: for one item, and in all
QueuedOn(id) ==
    IF isProcessingQueue /\ idleItems[queuePos] = id THEN 1 ELSE 0
RunsOn(id) == singles[id] + QueuedOn(id)

RECURSIVE Sum(_)
Sum(seq) == IF seq = <<>> THEN 0 ELSE Head(seq) + Sum(Tail(seq))

CallsInFlight == Sum(singles) + (IF isProcessingQueue THEN 1 ELSE 0)

\* C19 as stated: under any interleaving of handleTranscribeAll,
\* handleTranscribeSingle, handleFilesAdded and removeFile at most one
\* transcribeAudio call is in flight, and no item is transcribed by two
\* processFile runs at once.
C19_Serialized ==
    pc = "ui" =>
        /\ CallsInFlight <= 1
        /\ \A id \in DOMAIN singles : RunsOn(id) <= 1

\* The status of a queued item
StatusIn(its, id) == IF id \in Ids(its) THEN ItemOf(its, id).status ELSE "removed"
StatusOf(id) == StatusIn(items, id)

\* C20, the start of a run: idleItems holds the items that are 'idle' or
\* 'error', in queue order, and the first of them is being processed
C20_Start ==
    (~isProcessingQueue /\ isProcessingQueue') =>
        /\ idleItems' = [k \in DOMAIN SelectSeq(items, Startable) |->
                            SelectSeq(items, Startable)[k].id]
        /\ queuePos' = 1

\* C20, one item after another: the run moves on only when the call of its
\* current item has settled, that item (if still queued) is then 'completed'
\* or 'error', and the run goes on to the next item whatever the outcome
C20_Advance ==
    (isProcessingQueue /\ queuePos' # queuePos) =>
        /\ queuePos' = queuePos + 1
        /\ step' = Ran("settle", idleItems[queuePos], "all", step'.outcome)
        /\ idleItems' = idleItems
        /\ StatusIn(items', idleItems[queuePos]) \in
               {IF step'.outcome.ok THEN "completed" ELSE "error", "removed"}
        /\ isProcessingQueue' = (queuePos < Len(idleItems))
        /\ queuePos < Len(idleItems) =>
               StatusIn(items', idleItems[queuePos + 1]) \in {"transcribing", "removed"}

\* C20: a run of handleTranscribeAll processes the items that were 'idle' or
\* 'error' when it started, one after another in queue order; a failure does
\* not stop it; every processed item still queued becomes 'completed' or
\* 'error' and no item stays 'transcribing'; isProcessingQueue returns to
\* false.
C20_RunCompletes ==
    /\ [][C20_Start /\ C20_Advance]_vars
    /\ [](isProcessingQueue => queuePos \in 1..Len(idleItems))
    /\ isProcessingQueue ~> ~isProcessingQueue
    /\ \A id \in 1..MaxItems :
          (StatusOf(id) = "transcribing") ~> (StatusOf(id) # "transcribing")

\* A run over two items has ended: the first failed, the second completed
C20_Witness ==
    /\ step.op = "settle"
    /\ step.by = "all"
    /\ ~isProcessingQueue
    /\ idleItems = <<1, 2>>
    /\ queuePos = 3
    /\ StatusOf(1) = "error"
    /\ StatusOf(2) = "completed"

\* C21 as stated: under any interleaving of handleTranscribeAll and
\* handleTranscribeSingle the status of an item only moves from 'idle' or
\* 'error' to 'transcribing' and from 'transcribing' to 'completed' or
\* 'error'; an item that is 'completed' is never set back to 'transcribing'
\* and its cues and fullTranscript are never overwritten (it can only be
\* removed from the queue).
C21_StatusTransitions ==
    [][pc = "ui" =>
        \A id \in 1..MaxItems :
            LET before == StatusIn(items, id)
                after == StatusIn(items', id)
            IN /\ \/ after = before
                  \/ after = "removed"
                  \/ before = "removed" /\ after = "idle"
                  \/ before \in {"idle", "error"} /\ after = "transcribing"
                  \/ before = "transcribing" /\ after \in {"completed", "error"}
               /\ (before = "completed" /\ after # "removed") =>
                      /\ after = "completed"
                      /\ ItemOf(items', id).cues = ItemOf(items, id).cues
                      /\ ItemOf(items', id).fullTranscript = ItemOf(items, id).fullTranscript]_vars

====
